---- MODULE Spec2Model ----
(***************************************************************************)
(* Model of the exercise store of Backend-RehabilitIA and of the           *)
(* operations that read and write it:                                      *)
(*   logic/assign_logic.py          assign_exercise_to_patient,            *)
(*                                  get_exercise_for_context               *)
(*   logic/main_langraph_vnest.py   main_langraph_vnest (step4, step5)     *)
(*   logic/main_langraph_sr.py      main_langraph_sr, save_sr_cards        *)
(*   logic/main_personalization.py  main_personalization                   *)
(* The Firestore collections are the state.  A document that does not      *)
(* exist is a record with exists = FALSE; a field that is None or absent   *)
(* is None (strings) or one of the integer markers below.                  *)
(***************************************************************************)
EXTENDS Integers, FiniteSets

\* ------------------------------------------------------------------ bounds
\* number of exercise ids the generation workflows may hand out
MaxExercises == 2
\* cards one SR generation may return
MaxCards == 1
\* largest priority an assignment may reach (re-assignment grows it for ever)
MaxPriority == 3
\* largest last-performed timestamp
MaxTime == 2

\* ------------------------------------------------------------ value spaces
Ids == 1..MaxExercises
Patients == {"ana", "luis"}
\* the patient whose session calls the writer and the selector directly; the
\* generation workflows run for every patient
Callers == {"ana"}
Contexts == {"hospital", "cocina"}
Verbs == {"cortar", "comer"}
None == "None"
\* "vnest" stands for every therapy value that is not exactly VNEST or SR
Terapias == {"VNEST", "SR", "vnest", None}
Visibilidades == {"publico", "privado"}

\* referencia_base: None
NoRef == 0
\* ultima_fecha_realizado: None
NoFecha == 0
\* a numeric field the document does not carry
Missing == -1
\* default of item.get("prioridad", 999) in the selector
DefaultPrioridadSelector == 999
\* default of d.to_dict().get("prioridad", 0) in the assignment writer
DefaultPrioridadAssign == 0

\* --------------------------------------------------------------- documents
NoGeneral ==
  [exists |-> FALSE, terapia |-> None, tipo |-> None, personalizado |-> FALSE,
   referencia_base |-> NoRef, id_paciente |-> None, contexto |-> None]

NoVnest ==
  [exists |-> FALSE, id_ejercicio_general |-> NoRef, contexto |-> None,
   verbo |-> None]

NoSR ==
  [exists |-> FALSE, id_ejercicio_general |-> NoRef, contexto |-> None]

NoAsignado ==
  [exists |-> FALSE, id_ejercicio |-> NoRef, contexto |-> None, tipo |-> None,
   estado |-> None, prioridad |-> Missing, ultima_fecha_realizado |-> Missing,
   veces_realizado |-> Missing, personalizado |-> FALSE]

\* cards, oraciones, pares: what the model answered to a generation workflow
\* (the number of cards or of sentences, and whether pares is a list)
NoRet ==
  [op |-> "none", email |-> None, id |-> NoRef, kind |-> "none",
   tier |-> "none", highlight |-> FALSE, cards |-> Missing,
   oraciones |-> Missing, pares |-> None]

IdleCall ==
  [pc |-> "idle", email |-> None, id |-> NoRef, context |-> None,
   tipo |-> None, personalizado |-> FALSE, next_priority |-> Missing,
   overlapped |-> FALSE]

Slots == {"a", "b"}

VARIABLES
  ejercicios,        \* collection "ejercicios": id -> general record
  ejercicios_VNEST,  \* collection "ejercicios_VNEST": id -> VNEST detail
  ejercicios_SR,     \* collection "ejercicios_SR": id -> SR detail
  asignados,         \* pacientes/{p}/ejercicios_asignados: p -> id -> record
  ret,               \* the last call: its arguments and what it returned
  calls              \* overlapping calls of assign_exercise_to_patient

vars == <<ejercicios, ejercicios_VNEST, ejercicios_SR, asignados, ret, calls>>

Init ==
  /\ ejercicios = [i \in Ids |-> NoGeneral]
  /\ ejercicios_VNEST = [i \in Ids |-> NoVnest]
  /\ ejercicios_SR = [i \in Ids |-> NoSR]
  /\ asignados = [p \in Patients |-> [i \in Ids |-> NoAsignado]]
  /\ ret = NoRet
  /\ calls = [s \in Slots |-> IdleCall]

\* ----------------------------------------------------------------- helpers
SetMax(S) == CHOOSE x \in S : \A y \in S : y <= x

\* doc_id = f"E{uuid.uuid4().hex[:6].upper()}": an id no document has yet
UsedIds == {i \in Ids : ejercicios[i].exists}
NewId == Cardinality(UsedIds) + 1

\* ------------------------------------------------- assign_exercise_to_patient
\* prioridades = [d.to_dict().get("prioridad", 0) for d in asignados_ref.stream()]
PrioridadAssign(d) ==
  IF d.prioridad = Missing THEN DefaultPrioridadAssign ELSE d.prioridad

Prioridades(docs) == {PrioridadAssign(docs[i]) : i \in {j \in Ids : docs[j].exists}}

\* a writer that numbers by count, filling the gaps a re-assignment leaves
NextPriorityByCount(docs) == Cardinality({j \in Ids : docs[j].exists}) + 1

\* next_priority = max(prioridades) + 1 if prioridades else 1
NextPriority(docs) ==
  IF Prioridades(docs) = {} THEN 1 ELSE SetMax(Prioridades(docs)) + 1

\* the document of lines 61-71
NewAsignado(e, context, tipo, prioridad, personalizado) ==
  [exists |-> TRUE, id_ejercicio |-> e, contexto |-> context, tipo |-> tipo,
   estado |-> "pendiente", prioridad |-> prioridad,
   ultima_fecha_realizado |-> NoFecha, veces_realizado |-> 0,
   personalizado |-> personalizado]

\* a writer without the test of line 49: it writes whatever context it found
AssignedWithoutContextTest(gen, vn, sr, asg, p, e) ==
  LET doc == IF gen[e].terapia = "VNEST" THEN vn[e] ELSE sr[e]
      fails == \/ ~gen[e].exists
               \/ gen[e].terapia = None
               \/ gen[e].terapia \notin {"VNEST", "SR"}
  IN IF fails THEN asg
     ELSE [asg EXCEPT ![p][e] =
             NewAsignado(e, doc.contexto, gen[e].terapia,
                         NextPriority(asg[p]), gen[e].personalizado)]

\* the assignment collections after assign_exercise_to_patient(p, e) run
\* against the store (gen, vn, sr, asg): unchanged when it fails
Assigned(gen, vn, sr, asg, p, e) ==
  LET doc == IF gen[e].terapia = "VNEST" THEN vn[e] ELSE sr[e]
      fails == \/ ~gen[e].exists
               \/ gen[e].terapia = None
               \/ gen[e].terapia \notin {"VNEST", "SR"}
               \/ ~doc.exists
               \/ doc.contexto = None
  IN IF fails THEN asg
     ELSE [asg EXCEPT ![p][e] =
             NewAsignado(e, doc.contexto, gen[e].terapia,
                         NextPriority(asg[p]), gen[e].personalizado)]

\* the cap that keeps priorities finite
PriorityRoom(asg) ==
  \A p \in Patients : \A i \in Ids :
    asg[p][i].exists => asg[p][i].prioridad <= MaxPriority

AssignExercise(p, e) ==
  LET asg == Assigned(ejercicios, ejercicios_VNEST, ejercicios_SR, asignados, p, e)
  IN /\ \A s \in Slots : calls[s].pc = "idle"
     /\ PriorityRoom(asg)
     /\ asignados' = asg
     /\ ret' = [NoRet EXCEPT !.op = "assign", !.email = p, !.id = e,
                             !.kind = "returned"]
     /\ UNCHANGED <<ejercicios, ejercicios_VNEST, ejercicios_SR, calls>>

\* --------------------------------------------------------- main_langraph_vnest
\* what the model may answer in step 4: a verb or none, and how many sentences
SentenceCounts == {9, 10}
\* out5.get("pares"): a list, or anything else
ParesShapes == {"list", None}

\* the two documents step5_save_db writes
VnestGeneral(tipo) ==
  [exists |-> TRUE, terapia |-> "VNEST", tipo |-> tipo, personalizado |-> FALSE,
   referencia_base |-> NoRef, id_paciente |-> None, contexto |-> None]

VnestDetail(id, contexto, verbo) ==
  [exists |-> TRUE, id_ejercicio_general |-> id, contexto |-> contexto,
   verbo |-> verbo]

\* step4_expand_sentences raises when neither out5 nor the state has a verb;
\* _validate_final's exception is swallowed, so any sentence count and any
\* shape of pares is saved
MainLangraphVnest(contexto, tipo, verbo, n, pares) ==
  /\ \A s \in Slots : calls[s].pc = "idle"
  /\ IF verbo = None
     THEN /\ ret' = [NoRet EXCEPT !.op = "vnest", !.kind = "raised",
                                  !.oraciones = n, !.pares = pares]
          /\ UNCHANGED <<ejercicios, ejercicios_VNEST>>
     ELSE /\ NewId \in Ids
          /\ ejercicios' = [ejercicios EXCEPT ![NewId] = VnestGeneral(tipo)]
          /\ ejercicios_VNEST' =
               [ejercicios_VNEST EXCEPT
                  ![NewId] = VnestDetail(NewId, contexto, verbo)]
          /\ ret' = [NoRet EXCEPT !.op = "vnest", !.id = NewId,
                                  !.kind = "returned",
                                  !.oraciones = n, !.pares = pares]
  /\ UNCHANGED <<ejercicios_SR, asignados, calls>>

\* ------------------------------------------------------------ main_langraph_sr
\* the documents save_sr_cards writes for one card
SRGeneral(user_id) ==
  [exists |-> TRUE, terapia |-> "SR", tipo |-> "privado", personalizado |-> TRUE,
   referencia_base |-> NoRef, id_paciente |-> user_id, contexto |-> None]

SRDetail(id, contexto) ==
  [exists |-> TRUE, id_ejercicio_general |-> id, contexto |-> contexto]

\* asignar_a_paciente: id_ejercicio, tipo "privado", estado "pendiente" and
\* nothing else
SRAsignado(id) ==
  [NoAsignado EXCEPT !.exists = TRUE, !.id_ejercicio = id,
                     !.tipo = "privado", !.estado = "pendiente"]

\* the ids the cards of one call get
CardIds(n) == NewId..(NewId + n - 1)

MainLangraphSR(user_id, n) ==
  /\ \A s \in Slots : calls[s].pc = "idle"
  /\ IF n = 0
     THEN /\ ret' = [NoRet EXCEPT !.op = "sr", !.email = user_id,
                                  !.kind = "raised", !.cards = n]
          /\ UNCHANGED <<ejercicios, ejercicios_SR, asignados>>
     ELSE /\ CardIds(n) \subseteq Ids
          /\ ejercicios' =
               [i \in Ids |-> IF i \in CardIds(n) THEN SRGeneral(user_id)
                              ELSE ejercicios[i]]
          /\ ejercicios_SR' =
               [i \in Ids |-> IF i \in CardIds(n) THEN SRDetail(i, None)
                              ELSE ejercicios_SR[i]]
          /\ asignados' =
               [asignados EXCEPT ![user_id] =
                  [i \in Ids |-> IF i \in CardIds(n) THEN SRAsignado(i)
                                 ELSE asignados[user_id][i]]]
          /\ ret' = [NoRet EXCEPT !.op = "sr", !.email = user_id,
                                  !.kind = "returned", !.cards = n]
  /\ UNCHANGED <<ejercicios_VNEST, calls>>

\* --------------------------------------------------------- main_personalization
\* terapia.upper() of get_exercise_base
Upper(terapia) == IF terapia = "vnest" THEN "VNEST" ELSE terapia

\* get_exercise_base raises: no document, no terapia, terapia not supported
BaseRaises(exercise_id) ==
  \/ ~ejercicios[exercise_id].exists
  \/ ejercicios[exercise_id].terapia = None
  \/ Upper(ejercicios[exercise_id].terapia) \notin {"VNEST", "SR"}

\* base.get("contexto") of {**base_data, **extra}: the detail document's
\* contexto when it carries one, the general record's otherwise
BaseContexto(exercise_id) ==
  LET extra == IF Upper(ejercicios[exercise_id].terapia) = "VNEST"
               THEN ejercicios_VNEST[exercise_id]
               ELSE ejercicios_SR[exercise_id]
  IN IF extra.exists /\ extra.contexto # None THEN extra.contexto
     ELSE ejercicios[exercise_id].contexto

\* general_data of save_personalized_exercise
PersonalizedGeneral(user_id, exercise_id, terapia, contexto) ==
  [exists |-> TRUE, terapia |-> terapia, tipo |-> "privado",
   personalizado |-> TRUE, referencia_base |-> exercise_id,
   id_paciente |-> user_id, contexto |-> contexto]

\* the general record is written first; the detail record only for VNEST and
\* SR, anything else raises after the general record is in the store
MainPersonalization(user_id, exercise_id, terapia, verbo) ==
  /\ \A s \in Slots : calls[s].pc = "idle"
  /\ IF BaseRaises(exercise_id)
     THEN /\ ret' = [NoRet EXCEPT !.op = "personalization", !.email = user_id,
                                  !.id = exercise_id, !.kind = "raised"]
          /\ UNCHANGED <<ejercicios, ejercicios_VNEST, ejercicios_SR, asignados>>
     ELSE LET contexto == BaseContexto(exercise_id)
              gen == [ejercicios EXCEPT ![NewId] =
                        PersonalizedGeneral(user_id, exercise_id, terapia, contexto)]
              vn == IF terapia = "VNEST"
                    THEN [ejercicios_VNEST EXCEPT ![NewId] =
                            VnestDetail(NewId, contexto, verbo)]
                    ELSE ejercicios_VNEST
              sr == IF terapia = "SR"
                    THEN [ejercicios_SR EXCEPT ![NewId] = SRDetail(NewId, contexto)]
                    ELSE ejercicios_SR
              asg == IF terapia \in {"VNEST", "SR"}
                     THEN Assigned(gen, vn, sr, asignados, user_id, NewId)
                     ELSE asignados
          IN /\ NewId \in Ids
             /\ PriorityRoom(asg)
             /\ ejercicios' = gen
             /\ ejercicios_VNEST' = vn
             /\ ejercicios_SR' = sr
             /\ asignados' = asg
             /\ ret' = [NoRet EXCEPT
                          !.op = "personalization", !.email = user_id,
                          !.id = NewId,
                          !.kind = IF terapia \in {"VNEST", "SR"}
                                   THEN "returned" ELSE "raised"]
  /\ UNCHANGED calls

\* ----------------------------------------------------- get_exercise_for_context
\* load_exercise: whether /ejercicios_VNEST/{id} exists (None otherwise)
load_exercise(exercise_id) == ejercicios_VNEST[exercise_id].exists

\* assigned: the patient's assignment documents whose contexto is the context
AssignedInContext(email, context) ==
  {i \in Ids : asignados[email][i].exists /\ asignados[email][i].contexto = context}

\* a join that takes every assignment of the context for a match
JoinsAnyAssignment(email, i, verbo) == TRUE

\* lines 104-110: the assignment's VNEST detail exists and has the verb
JoinsVnest(email, i, verbo) ==
  LET vn_doc == ejercicios_VNEST[asignados[email][i].id_ejercicio]
  IN vn_doc.exists /\ vn_doc.verbo = verbo

\* a join that takes a private base record for a personalized one
PersonalizadoFromVisibility(exercise_id) ==
  LET general_id == ejercicios_VNEST[exercise_id].id_ejercicio_general
  IN IF general_id # NoRef /\ ejercicios[general_id].exists
     THEN ejercicios[general_id].tipo = "privado"
     ELSE FALSE

\* lines 112-118 and 151-160: the personalizado flag of the general record
\* the VNEST detail names, False when there is none
Personalizado(exercise_id) ==
  LET general_id == ejercicios_VNEST[exercise_id].id_ejercicio_general
  IN IF general_id # NoRef /\ ejercicios[general_id].exists
     THEN ejercicios[general_id].personalizado
     ELSE FALSE

\* lines 153-159: the visibility of that general record, "publico" by default
Visibilidad(exercise_id) ==
  LET general_id == ejercicios_VNEST[exercise_id].id_ejercicio_general
  IN IF general_id # NoRef /\ ejercicios[general_id].exists
     THEN ejercicios[general_id].tipo
     ELSE "publico"

\* item["prioridad"] = int(item.get("prioridad", 999))
PrioridadSelector(d) ==
  IF d.prioridad = Missing THEN DefaultPrioridadSelector ELSE d.prioridad

Matched(email, context, verbo) ==
  {i \in AssignedInContext(email, context) : JoinsVnest(email, i, verbo)}

\* a partition that tests the status against a word no record carries
PendingMisspelled(email, context, verbo) ==
  {i \in Matched(email, context, verbo) : asignados[email][i].estado = "pending"}

Pending(email, context, verbo) ==
  {i \in Matched(email, context, verbo) : asignados[email][i].estado = "pendiente"}

Completed(email, context, verbo) ==
  {i \in Matched(email, context, verbo) : asignados[email][i].estado # "pendiente"}

\* a sort on the priority alone
KeyLEByPriority(email, i, j) ==
  PrioridadSelector(asignados[email][i]) <= PrioridadSelector(asignados[email][j])

\* key=lambda x: (not x["personalizado"], x["prioridad"]), compared as tuples
KeyLE(email, i, j) ==
  LET ni == ~Personalizado(asignados[email][i].id_ejercicio)
      nj == ~Personalizado(asignados[email][j].id_ejercicio)
      pi == PrioridadSelector(asignados[email][i])
      pj == PrioridadSelector(asignados[email][j])
  IN \/ (~ni /\ nj)
     \/ (ni = nj /\ pi <= pj)

\* sorted(pending, key=...)[0]: a least element (the stream's order decides
\* among equal keys)
ChosenPending(email, context, verbo) ==
  {i \in Pending(email, context, verbo) :
     \A j \in Pending(email, context, verbo) : KeyLE(email, i, j)}

\* a scan that forgets the visibility of the base record
AvailableAnyVisibility(email, context, verbo) ==
  {i \in Ids : /\ ejercicios_VNEST[i].exists
               /\ ejercicios_VNEST[i].contexto = context
               /\ ejercicios_VNEST[i].verbo = verbo
               /\ i \notin {asignados[email][a].id_ejercicio :
                              a \in AssignedInContext(email, context)}}

\* lines 138-164: the catalog's exercises of the context and verb that are
\* not among assigned and whose base record is not "privado"
Available(email, context, verbo) ==
  {i \in Ids : /\ ejercicios_VNEST[i].exists
               /\ ejercicios_VNEST[i].contexto = context
               /\ ejercicios_VNEST[i].verbo = verbo
               /\ i \notin {asignados[email][a].id_ejercicio :
                              a \in AssignedInContext(email, context)}
               /\ Visibilidad(i) # "privado"}

\* completed_with_date: a truthy ultima_fecha_realizado
CompletedWithDate(email, context, verbo) ==
  {i \in Completed(email, context, verbo) :
     asignados[email][i].ultima_fecha_realizado \notin {NoFecha, Missing}}

\* a sort that takes the most recent one
Newest(email, context, verbo) ==
  {i \in CompletedWithDate(email, context, verbo) :
     \A j \in CompletedWithDate(email, context, verbo) :
       asignados[email][i].ultima_fecha_realizado
         >= asignados[email][j].ultima_fecha_realizado}

\* sorted(completed_with_date, key=ultima_fecha_realizado)[0]
Oldest(email, context, verbo) ==
  {i \in CompletedWithDate(email, context, verbo) :
     \A j \in CompletedWithDate(email, context, verbo) :
       asignados[email][i].ultima_fecha_realizado
         <= asignados[email][j].ultima_fecha_realizado}

\* where a store access of the call throws: nowhere, at the first query, in
\* the assign_exercise_to_patient of line 169 (whose own except clause of
\* lines 73-74 swallows it), or at the load_exercise that ends a tier
Faults == {"none", "query", "assign", "load"}

\* return {"error": ...} of lines 184-189
ErrorResult(email) ==
  [NoRet EXCEPT !.op = "get", !.email = email, !.kind = "error"]

\* ex = load_exercise(id); if ex: ex["highlight"] = ...; return ex
Returned(email, exercise_id, highlight, tier, fault) ==
  IF fault = "load" THEN ErrorResult(email)
  ELSE IF load_exercise(exercise_id)
  THEN [NoRet EXCEPT !.op = "get", !.email = email, !.id = exercise_id,
                     !.kind = "exercise", !.tier = tier,
                     !.highlight = highlight]
  ELSE [NoRet EXCEPT !.op = "get", !.email = email, !.kind = "null",
                     !.tier = tier]

\* what one call can return and leave in the assignment collections: the
\* tiers of lines 129-186 in their order
GetOutcomes(email, context, verbo, fault) ==
  IF fault = "query"
  THEN {[ret |-> ErrorResult(email), asg |-> asignados]}
  ELSE IF Pending(email, context, verbo) # {}
  THEN {[ret |-> Returned(email, asignados[email][chosen].id_ejercicio,
                          Personalizado(asignados[email][chosen].id_ejercicio),
                          "pending", fault),
         asg |-> asignados] :
          chosen \in ChosenPending(email, context, verbo)}
  ELSE IF Available(email, context, verbo) # {}
  THEN {[ret |-> Returned(email, selected, Personalizado(selected), "new", fault),
         asg |-> IF fault = "assign" THEN asignados
                 ELSE Assigned(ejercicios, ejercicios_VNEST, ejercicios_SR,
                               asignados, email, selected)] :
          selected \in Available(email, context, verbo)}
  ELSE IF CompletedWithDate(email, context, verbo) # {}
  THEN {[ret |-> Returned(email, asignados[email][oldest].id_ejercicio,
                          Personalizado(asignados[email][oldest].id_ejercicio),
                          "completed", fault),
         asg |-> asignados] :
          oldest \in Oldest(email, context, verbo)}
  ELSE {[ret |-> ErrorResult(email), asg |-> asignados]}

GetExerciseForContext(email, context, verbo, fault) ==
  /\ \A s \in Slots : calls[s].pc = "idle"
  /\ \E o \in GetOutcomes(email, context, verbo, fault) :
       /\ PriorityRoom(o.asg)
       /\ asignados' = o.asg
       /\ ret' = o.ret
  /\ UNCHANGED <<ejercicios, ejercicios_VNEST, ejercicios_SR, calls>>

\* ------------------------------------------------- performing an exercise
\* the timestamp of the next performance: later than every one in the store
Now ==
  LET T == {asignados[p][i].ultima_fecha_realizado : p \in Patients, i \in Ids}
           \cup {NoFecha}
  IN SetMax(T) + 1

\* the patient performs an assigned exercise: the record becomes completed
\* and stamped (the two fields the selector reads)
CompleteExercise(email, i) ==
  /\ \A s \in Slots : calls[s].pc = "idle"
  /\ asignados[email][i].exists
  /\ asignados[email][i].contexto # None
  /\ Now <= MaxTime
  /\ asignados' =
       [asignados EXCEPT
          ![email][i].estado = "completado",
          ![email][i].ultima_fecha_realizado = Now]
  /\ ret' = [NoRet EXCEPT !.op = "complete", !.email = email, !.id = i,
                          !.kind = "returned"]
  /\ UNCHANGED <<ejercicios, ejercicios_VNEST, ejercicios_SR, calls>>

\* ------------------------------------------------------------ specification
Next ==
  \/ \E p \in Callers, e \in Ids : AssignExercise(p, e)
  \/ \E p \in Callers, c \in Contexts, v \in Verbs, f \in Faults :
       GetExerciseForContext(p, c, v, f)
  \/ \E c \in Contexts, t \in Visibilidades, v \in Verbs \cup {None},
        n \in SentenceCounts, pares \in ParesShapes :
       MainLangraphVnest(c, t, v, n, pares)
  \/ \E p \in Patients, n \in 0..MaxCards : MainLangraphSR(p, n)
  \/ \E p \in Patients, e \in Ids, t \in Terapias, v \in Verbs :
       MainPersonalization(p, e, t, v)
  \/ \E p \in Callers, i \in Ids : CompleteExercise(p, i)

Spec == Init /\ [][Next]_vars

\* ------------------------------------ overlapping assign_exercise_to_patient
\* Lines 28-59 read the store and lines 61-71 write it, with no transaction
\* around them: a call is at "read" between the two.
OtherSlot(s) == CHOOSE t \in Slots : t # s

\* s's call and the other one have both read and neither has written, for
\* the same patient and two different exercises
Overlaps(s, p, e) ==
  /\ calls[OtherSlot(s)].pc = "read"
  /\ calls[OtherSlot(s)].email = p
  /\ calls[OtherSlot(s)].id # e

\* lines 28-59: the lookups and the priority computed from the stream
AssignRead(s, p, e) ==
  LET asg == Assigned(ejercicios, ejercicios_VNEST, ejercicios_SR, asignados, p, e)
      t == OtherSlot(s)
  IN /\ calls[s].pc = "idle"
     /\ asg # asignados
     /\ calls' =
          [calls EXCEPT
             ![s] = [pc |-> "read", email |-> p, id |-> e,
                     context |-> asg[p][e].contexto, tipo |-> asg[p][e].tipo,
                     personalizado |-> asg[p][e].personalizado,
                     next_priority |-> NextPriority(asignados[p]),
                     overlapped |-> Overlaps(s, p, e)],
             ![t].overlapped = calls[t].overlapped \/ Overlaps(s, p, e)]
     /\ UNCHANGED <<ejercicios, ejercicios_VNEST, ejercicios_SR, asignados, ret>>

\* a write inside a transaction: the priority is read again as it commits
WritePriorityInTransaction(s) == NextPriority(asignados[calls[s].email])

\* "prioridad": next_priority, the value line 59 computed
WritePriority(s) == calls[s].next_priority

\* lines 61-71: the set() of the document
AssignWrite(s) ==
  LET c == calls[s]
      asg == [asignados EXCEPT ![c.email][c.id] =
                NewAsignado(c.id, c.context, c.tipo, WritePriority(s),
                            c.personalizado)]
  IN /\ c.pc = "read"
     /\ PriorityRoom(asg)
     /\ asignados' = asg
     /\ calls' = [calls EXCEPT ![s].pc = "done"]
     /\ ret' = [NoRet EXCEPT !.op = "assign", !.email = c.email, !.id = c.id,
                             !.kind = "returned"]
     /\ UNCHANGED <<ejercicios, ejercicios_VNEST, ejercicios_SR>>

\* two calls of the writer overlap after a history of whole calls (the
\* writer does not read the visibility, so the catalog here is public)
NextConc ==
  \/ \E c \in Contexts, v \in Verbs \cup {None}, n \in SentenceCounts :
       MainLangraphVnest(c, "publico", v, n, "list")
  \/ \E p \in Callers, e \in Ids : AssignExercise(p, e)
  \/ \E s \in Slots, p \in Callers, e \in Ids : AssignRead(s, p, e)
  \/ \E s \in Slots : AssignWrite(s)

SpecConc == Init /\ [][NextConc]_vars

\* ==================================================================== claims
\* The vocabulary of the claims, stated on the documents themselves.

\* the patient holds an assignment of exercise i whose context snapshot is c
\* and whose VNEST detail has verb v
IsMatch(p, i, c, v) ==
  /\ asignados[p][i].exists
  /\ asignados[p][i].contexto = c
  /\ ejercicios_VNEST[i].exists
  /\ ejercicios_VNEST[i].verbo = v

PendingMatches(p, c, v) ==
  {i \in Ids : IsMatch(p, i, c, v) /\ asignados[p][i].estado = "pendiente"}

CompletedMatches(p, c, v) ==
  {i \in Ids : IsMatch(p, i, c, v) /\ asignados[p][i].estado # "pendiente"}

\* the catalog's exercises of the context and verb that the patient has no
\* assignment for and whose general record is not private
UnassignedCandidates(p, c, v) ==
  {i \in Ids : /\ ejercicios_VNEST[i].exists
               /\ ejercicios_VNEST[i].contexto = c
               /\ ejercicios_VNEST[i].verbo = v
               /\ ~asignados[p][i].exists
               /\ ~(ejercicios[i].exists /\ ejercicios[i].tipo = "privado")}

BaseIsPersonalized(i) == ejercicios[i].exists /\ ejercicios[i].personalizado

\* the priorities the patient's assignment records carry
CarriedPriorities(asg, p) ==
  {asg[p][i].prioridad : i \in {j \in Ids : asg[p][j].exists /\ asg[p][j].prioridad # Missing}}

\* ---------------------------------------------------------------------- C1
\* C1: in every reachable store and for every patient, context and verb with
\* at least one pending match, what get_exercise_for_context returns (when no
\* store access throws) is an exercise, one of the pending matches, and least
\* under (personalized first, then lower priority): no pending match is
\* personalized unless the returned one is, and among those as personalized
\* as the returned one none has a lower priority value.
C1_PendingMinimum ==
  \A p \in Patients, c \in Contexts, v \in Verbs :
    PendingMatches(p, c, v) # {} =>
      \A o \in GetOutcomes(p, c, v, "none") :
        /\ o.ret.kind = "exercise"
        /\ o.ret.id \in PendingMatches(p, c, v)
        /\ \A q \in PendingMatches(p, c, v) :
             /\ BaseIsPersonalized(q) => BaseIsPersonalized(o.ret.id)
             /\ BaseIsPersonalized(q) = BaseIsPersonalized(o.ret.id)
                  => asignados[p][o.ret.id].prioridad <= asignados[p][q].prioridad

\* the selector has just returned a personalized pending exercise although a
\* non-personalized pending match of the same context and verb has a lower
\* priority value
C1_Witness ==
  /\ ret.op = "get" /\ ret.kind = "exercise" /\ ret.tier = "pending"
  /\ BaseIsPersonalized(ret.id)
  /\ \E q \in PendingMatches(ret.email, ejercicios_VNEST[ret.id].contexto,
                             ejercicios_VNEST[ret.id].verbo) :
       /\ ~BaseIsPersonalized(q)
       /\ asignados[ret.email][q].prioridad < asignados[ret.email][ret.id].prioridad

\* ---------------------------------------------------------------------- C2
\* C2: whenever the patient has a pending match for the context and verb, the
\* call returns the exercise of an assignment that is pending, and creates no
\* assignment: it takes neither an unassigned catalog exercise nor a
\* completed one, whatever completed matches and unassigned candidates exist.
C2_PendingFirst ==
  \A p \in Patients, c \in Contexts, v \in Verbs :
    PendingMatches(p, c, v) # {} =>
      \A o \in GetOutcomes(p, c, v, "none") :
        /\ o.ret.kind = "exercise"
        /\ asignados[p][o.ret.id].exists
        /\ asignados[p][o.ret.id].estado = "pendiente"
        /\ o.ret.id \notin CompletedMatches(p, c, v)
        /\ o.ret.id \notin UnassignedCandidates(p, c, v)
        /\ o.asg = asignados

\* the selector has just returned a pending exercise while a completed match
\* of the same context and verb, performed earlier, was there to take
C2_Witness ==
  /\ ret.op = "get" /\ ret.kind = "exercise"
  /\ asignados[ret.email][ret.id].estado = "pendiente"
  /\ \E d \in CompletedMatches(ret.email, ejercicios_VNEST[ret.id].contexto,
                               ejercicios_VNEST[ret.id].verbo) :
       asignados[ret.email][d].ultima_fecha_realizado >= 1

ThrowHappens(p, c, v, f) ==
  \/ f = "query"
  \/ f = "assign" /\ PendingMatches(p, c, v) = {} /\ UnassignedCandidates(p, c, v) # {}
  \/ f = "load" /\ (\/ PendingMatches(p, c, v) # {}
                    \/ UnassignedCandidates(p, c, v) # {}
                    \/ CompletedMatches(p, c, v) # {})

NoCandidate(p, c, v) ==
  /\ PendingMatches(p, c, v) = {}
  /\ UnassignedCandidates(p, c, v) = {}
  /\ CompletedMatches(p, c, v) = {}

\* C4 as claimed: every call returns an exercise record or an error result,
\* never nothing and never an exception; it is the error result when there is
\* no pending match, no unassigned candidate and no completed match, and
\* whenever any store access inside the call throws.
C4_ErrorOnAnyThrow ==
  \A p \in Patients, c \in Contexts, v \in Verbs, f \in Faults :
    \A o \in GetOutcomes(p, c, v, f) :
      /\ o.ret.kind \in {"exercise", "error"}
      /\ ThrowHappens(p, c, v, f) => o.ret.kind = "error"
      /\ NoCandidate(p, c, v) => o.ret.kind = "error"

\* C4 as amended: every call returns an exercise record or an error result,
\* never nothing and never an exception; it is the error result when there is
\* no pending match, no unassigned candidate and no completed match, and when
\* a store access of the selector's own code throws; a throw inside the
\* nested assign_exercise_to_patient is swallowed there, and the call returns
\* the selected exercise with no assignment written.
C4_ExerciseOrError ==
  \A p \in Patients, c \in Contexts, v \in Verbs, f \in Faults :
    \A o \in GetOutcomes(p, c, v, f) :
      /\ o.ret.kind \in {"exercise", "error"}
      /\ (f \in {"query", "load"} /\ ThrowHappens(p, c, v, f))
           => (o.ret.kind = "error")
      /\ NoCandidate(p, c, v) => o.ret.kind = "error"
      /\ (f = "assign" /\ ThrowHappens(p, c, v, f))
           => (/\ o.ret.kind = "exercise"
               /\ o.ret.id \in UnassignedCandidates(p, c, v)
               /\ o.asg = asignados)

\* the selector has just returned an unassigned exercise and the patient
\* holds no assignment for it: the writer's throw was swallowed
C4_Witness ==
  /\ ret.op = "get" /\ ret.kind = "exercise" /\ ret.tier = "new"
  /\ ~asignados[ret.email][ret.id].exists

\* ---------------------------------------------------------------------- C5
\* the priority the claim expects of the patient's next assignment: 1 when
\* the patient has no assignment, else one more than the largest priority the
\* patient's records carry (a record without one counts for nothing)
ExpectedPriority(asg, p) ==
  IF \A i \in Ids : ~asg[p][i].exists THEN 1
  ELSE SetMax(CarriedPriorities(asg, p) \cup {0}) + 1

\* the assignment of e to p in `after` is the one a call wrote over `before`
WroteAsClaimed(before, after, p, e) ==
  /\ after[p][e].exists
  /\ after[p][e].prioridad = ExpectedPriority(before, p)
  /\ \A x \in CarriedPriorities(before, p) : after[p][e].prioridad > x

\* C5: in every reachable store, a call of assign_exercise_to_patient that
\* writes (alone, or inside the selector's new-assignment step) writes
\* priority 1 for a patient without assignments and otherwise the largest
\* existing priority + 1, above every priority the patient had; and the
\* assignment main_personalization has just made for its new exercise has
\* that priority with respect to the patient's other records.
C5_NextPriority ==
  /\ \A p \in Patients, e \in Ids :
       LET asg == Assigned(ejercicios, ejercicios_VNEST, ejercicios_SR,
                           asignados, p, e)
       IN asg # asignados => WroteAsClaimed(asignados, asg, p, e)
  /\ \A p \in Patients, c \in Contexts, v \in Verbs, f \in Faults :
       \A o \in GetOutcomes(p, c, v, f) :
         o.asg # asignados =>
           \E e \in Ids : /\ o.asg[p][e] # asignados[p][e]
                          /\ WroteAsClaimed(asignados, o.asg, p, e)
  /\ (ret.op = "personalization" /\ asignados[ret.email][ret.id].exists) =>
       WroteAsClaimed([asignados EXCEPT ![ret.email][ret.id] = NoAsignado],
                      asignados, ret.email, ret.id)

\* a call has just re-assigned an exercise: its record has priority 3, above
\* the patient's other record, and priority 1 is left unused
C5_Witness ==
  /\ ret.op = "assign"
  /\ asignados[ret.email][ret.id].exists
  /\ asignados[ret.email][ret.id].prioridad = 3
  /\ CarriedPriorities(asignados, ret.email) = {2, 3}

\* ---------------------------------------------------------------------- C6
\* C6: in every store reached by whole (non-overlapping) calls, no two
\* assignment records of one patient carry the same priority value.
C6_UniquePriorities ==
  \A p \in Patients : \A i, j \in Ids :
    (/\ i # j
     /\ asignados[p][i].exists /\ asignados[p][j].exists
     /\ asignados[p][i].prioridad # Missing) =>
      asignados[p][i].prioridad # asignados[p][j].prioridad

\* a patient holds two prioritised records, one of them just re-assigned
\* by the selector or the writer to a priority above a gap
C6_Witness ==
  /\ ret.op \in {"assign", "get"}
  /\ \E i, j \in Ids :
       /\ asignados[ret.email][i].exists /\ asignados[ret.email][j].exists
       /\ asignados[ret.email][i].prioridad = 2
       /\ asignados[ret.email][j].prioridad = 3

\* ---------------------------------------------------------------------- C7
\* C7: when two calls of assign_exercise_to_patient for one patient and two
\* different exercises have both read the priorities before either wrote,
\* then once both have written the two new records hold the same priority:
\* the read and the write are not atomic.
C7_RaceSamePriority ==
  \A s, t \in Slots :
    (/\ s # t
     /\ calls[s].pc = "done" /\ calls[t].pc = "done"
     /\ calls[s].overlapped /\ calls[t].overlapped) =>
      /\ calls[s].email = calls[t].email
      /\ calls[s].id # calls[t].id
      /\ asignados[calls[s].email][calls[s].id].prioridad
           = asignados[calls[t].email][calls[t].id].prioridad

\* both overlapping calls have written, and the patient holds two records
\* with one priority
C7_Witness ==
  /\ \A s \in Slots : calls[s].pc = "done" /\ calls[s].overlapped
  /\ \E i, j \in Ids :
       /\ i # j
       /\ asignados["ana"][i].exists /\ asignados["ana"][j].exists
       /\ asignados["ana"][i].prioridad = asignados["ana"][j].prioridad

\* ---------------------------------------------------------------------- C8
\* the exercises the writer cannot assign, in the claim's words
NoGeneralRecord(e) == ~ejercicios[e].exists
NoTherapyType(e) == ejercicios[e].exists /\ ejercicios[e].terapia = None
UnknownTherapyType(e) ==
  ejercicios[e].exists /\ ejercicios[e].terapia \notin {"VNEST", "SR", None}
NoDetailContext(e) ==
  \/ ejercicios[e].terapia = "VNEST"
       /\ (~ejercicios_VNEST[e].exists \/ ejercicios_VNEST[e].contexto = None)
  \/ ejercicios[e].terapia = "SR"
       /\ (~ejercicios_SR[e].exists \/ ejercicios_SR[e].contexto = None)

CannotAssign(e) ==
  NoGeneralRecord(e) \/ NoTherapyType(e) \/ UnknownTherapyType(e) \/ NoDetailContext(e)

\* C8: in every reachable store, assign_exercise_to_patient called for an
\* exercise without general record, without therapy type, with a therapy
\* type other than VNEST/SR, or without a detail record carrying a context
\* leaves every assignment collection as it was; and the call that has just
\* run returned to its caller.
C8_SilentFailure ==
  /\ \A p \in Patients, e \in Ids :
       CannotAssign(e) =>
         Assigned(ejercicios, ejercicios_VNEST, ejercicios_SR, asignados, p, e)
           = asignados
  /\ ret.op = "assign" => ret.kind = "returned"

\* the writer has just been called for an SR exercise whose detail record
\* has no context, and for a therapy-less one, both in the store
C8_Witness ==
  /\ ret.op = "assign" /\ ret.kind = "returned"
  /\ ejercicios[ret.id].exists
  /\ NoDetailContext(ret.id) \/ NoTherapyType(ret.id) \/ UnknownTherapyType(ret.id)
  /\ \E i \in Ids : asignados[ret.email][i].exists

\* ---------------------------------------------------------------------- C9
\* C9: in every store the generation workflows reach, every general record
\* with personalizado = true has a referencia_base that is not null.
C9_PersonalizedHasBase ==
  \A i \in Ids :
    (ejercicios[i].exists /\ ejercicios[i].personalizado) =>
      ejercicios[i].referencia_base # NoRef

\* --------------------------------------------------------------------- C10
\* C10: after every generation workflow call, returned or raised, every
\* general record has a VNEST or SR detail record under its id.
C10_GeneralHasDetail ==
  \A i \in Ids :
    ejercicios[i].exists =>
      (ejercicios_VNEST[i].exists \/ ejercicios_SR[i].exists)

\* --------------------------------------------------------------------- C11
\* what the claim says of an exercise e the call returned from the
\* unassigned tier: it has the requested context and verb, the patient held
\* no assignment for it, and its base record is not private
FromUnassignedTier(p, c, v, e) ==
  /\ ejercicios_VNEST[e].exists
  /\ ejercicios_VNEST[e].contexto = c
  /\ ejercicios_VNEST[e].verbo = v
  /\ ~asignados[p][e].exists
  /\ ~(ejercicios[e].exists /\ ejercicios[e].tipo = "privado")

\* after the call the patient holds a pending assignment for exactly e, with
\* the previous maximum priority + 1 (1 without one), and nothing else changed
HoldsNewAssignment(after, p, e) ==
  /\ after[p][e].exists
  /\ after[p][e].id_ejercicio = e
  /\ after[p][e].estado = "pendiente"
  /\ after[p][e].prioridad = ExpectedPriority(asignados, p)
  /\ after = [asignados EXCEPT ![p][e] = after[p][e]]

\* C11 as claimed: whenever a call finds no pending match and returns an
\* exercise from the unassigned tier, the exercise has the requested context
\* and verb, was not assigned to the patient, is not private, and after the
\* call the patient holds a pending assignment for it with priority previous
\* maximum + 1 (1 if the patient had none).
C11_NewAssignment ==
  \A p \in Patients, c \in Contexts, v \in Verbs, f \in Faults :
    \A o \in GetOutcomes(p, c, v, f) :
      (o.ret.kind = "exercise" /\ o.ret.tier = "new") =>
        /\ PendingMatches(p, c, v) = {}
        /\ FromUnassignedTier(p, c, v, o.ret.id)
        /\ HoldsNewAssignment(o.asg, p, o.ret.id)

\* C11 as amended: whenever a call finds no pending match and returns an
\* exercise from the unassigned tier, the exercise has the requested context
\* and verb, was not assigned to the patient and is not private; after the
\* call the patient holds a pending assignment for it with priority previous
\* maximum + 1 (1 if the patient had none), unless a store access inside the
\* nested assign_exercise_to_patient threw: then the exercise is returned all
\* the same and no assignment is written.
C11_NewAssignmentUnlessSwallowed ==
  \A p \in Patients, c \in Contexts, v \in Verbs, f \in Faults :
    \A o \in GetOutcomes(p, c, v, f) :
      (o.ret.kind = "exercise" /\ o.ret.tier = "new") =>
        /\ PendingMatches(p, c, v) = {}
        /\ FromUnassignedTier(p, c, v, o.ret.id)
        /\ IF f = "assign" THEN o.asg = asignados
           ELSE HoldsNewAssignment(o.asg, p, o.ret.id)

\* the selector has just returned an unassigned exercise and assigned it with
\* priority 2, above the record the patient already held
C11_Witness ==
  /\ ret.op = "get" /\ ret.kind = "exercise" /\ ret.tier = "new"
  /\ asignados[ret.email][ret.id].exists
  /\ asignados[ret.email][ret.id].estado = "pendiente"
  /\ asignados[ret.email][ret.id].prioridad = 2
  /\ \E i \in Ids : i # ret.id /\ asignados[ret.email][i].exists

\* --------------------------------------------------------------------- C12
\* the model output the call that has just run received fails validation
SRInvalid(r) == r.op = "sr" /\ r.cards = 0
VnestInvalid(r) == r.op = "vnest" /\ (r.oraciones # 10 \/ r.pares # "list")

\* C12: a generation workflow whose model output fails validation raises and
\* persists no exercise record: main_langraph_sr when the output has no
\* cards, main_langraph_vnest when the final output does not have exactly
\* ten sentences or its pares is not a list.
C12_InvalidOutputRaises ==
  [][(SRInvalid(ret') \/ VnestInvalid(ret')) =>
       /\ ret'.kind = "raised"
       /\ UNCHANGED <<ejercicios, ejercicios_VNEST, ejercicios_SR>>]_vars

\* --------------------------------------------------------------------- C13
\* the personalized flag of the general record the VNEST detail of e
\* references; false when the detail names none or the record does not exist
ReferencedFlag(e) ==
  \E g \in Ids :
    /\ ejercicios_VNEST[e].id_ejercicio_general = g
    /\ ejercicios[g].exists
    /\ ejercicios[g].personalizado

\* C13: in every reachable store, every exercise a call of
\* get_exercise_for_context returns, from the pending, the newly assigned or
\* the oldest-completed tier, carries a highlight flag equal to the
\* personalized flag of the general record its VNEST detail references
\* (false when there is no such record).
C13_HighlightIsPersonalized ==
  \A p \in Patients, c \in Contexts, v \in Verbs, f \in Faults :
    \A o \in GetOutcomes(p, c, v, f) :
      o.ret.kind = "exercise" =>
        /\ o.ret.tier \in {"pending", "new", "completed"}
        /\ o.ret.highlight = ReferencedFlag(o.ret.id)

\* the selector has just returned a completed exercise with the highlight
\* set: a personalized exercise, while the store also holds a private
\* exercise that is not personalized
C13_Witness ==
  /\ ret.op = "get" /\ ret.kind = "exercise" /\ ret.tier = "completed"
  /\ ret.highlight
  /\ ejercicios[ret.id].personalizado
  /\ \E i \in Ids : /\ ejercicios[i].exists
                    /\ ejercicios[i].tipo = "privado"
                    /\ ~ejercicios[i].personalizado

\* --------------------------------------------------------------------- C14
\* the assignment shape of the data model, as a record has it when written
AssignmentShape(d, e) ==
  /\ d.exists
  /\ d.id_ejercicio = e
  /\ d.contexto # None
  /\ d.tipo \in {"VNEST", "SR"}
  /\ d.estado = "pendiente"
  /\ d.prioridad # Missing /\ d.prioridad >= 1
  /\ d.ultima_fecha_realizado = NoFecha
  /\ d.veces_realizado = 0

\* C14: every assignment record an operation writes (the writer, the
\* selector's new-assignment step, main_personalization, the SR workflow's
\* asignar_a_paciente) has the assignment shape: exercise id, context
\* snapshot, therapy type VNEST or SR, status pending, priority at least 1,
\* null last-performed timestamp, times-performed 0.
C14_WrittenShape ==
  [][\A p \in Patients, e \in Ids :
       (asignados'[p][e] # asignados[p][e] /\ ret'.op # "complete") =>
         AssignmentShape(asignados'[p][e], e)]_vars

\* --------------------------------------------------------------------- C15
\* the call that has just run returned exercise ret.id from the unassigned
\* tier; its arguments were the context and the verb of that exercise
JustNewlySelected ==
  ret.op = "get" /\ ret.kind = "exercise" /\ ret.tier = "new"

\* the next call with the same arguments returns the same exercise from the
\* pending tier and writes nothing
SameExerciseAgain(o) ==
  /\ o.ret.kind = "exercise"
  /\ o.ret.id = ret.id
  /\ o.ret.tier = "pending"
  /\ o.asg = asignados

\* C15 as claimed: if a call returned an exercise from the unassigned tier,
\* the next call with the same arguments and no store change in between
\* returns that same exercise, now from the pending tier, and creates no
\* further assignment.
C15_StableSelection ==
  JustNewlySelected =>
    \A o \in GetOutcomes(ret.email, ejercicios_VNEST[ret.id].contexto,
                         ejercicios_VNEST[ret.id].verbo, "none") :
      SameExerciseAgain(o)

\* C15 as amended: if a call returned an exercise from the unassigned tier
\* and its assignment was written, the next call with the same arguments and
\* no store change in between creates no assignment and returns that same
\* exercise, now from the pending tier (the error result when one of its own
\* store accesses throws); if the nested writer's throw was swallowed and no
\* assignment was written, the next call chooses again among the unassigned
\* candidates.
C15_StableOnceAssigned ==
  JustNewlySelected =>
    LET p == ret.email
        c == ejercicios_VNEST[ret.id].contexto
        v == ejercicios_VNEST[ret.id].verbo
    IN IF asignados[p][ret.id].exists
       THEN \A f \in Faults : \A o \in GetOutcomes(p, c, v, f) :
              IF f \in {"query", "load"}
              THEN o.ret.kind = "error" /\ o.asg = asignados
              ELSE SameExerciseAgain(o)
       ELSE /\ ret.id \in UnassignedCandidates(p, c, v)
            /\ \A o \in GetOutcomes(p, c, v, "none") :
                 /\ o.ret.kind = "exercise" /\ o.ret.tier = "new"
                 /\ o.ret.id \in UnassignedCandidates(p, c, v)

\* the selector has just assigned and returned one of two unassigned
\* candidates of the context and verb: the other one is still there to take
C15_Witness ==
  /\ JustNewlySelected
  /\ asignados[ret.email][ret.id].exists
  /\ \E j \in Ids :
       /\ j # ret.id
       /\ j \in UnassignedCandidates(ret.email, ejercicios_VNEST[ret.id].contexto,
                                     ejercicios_VNEST[ret.id].verbo)

\* --------------------------------------------------------------------- C16
\* the general record of e names an owning patient other than q
OwnedByAnother(e, q) ==
  /\ ejercicios[e].exists
  /\ ejercicios[e].id_paciente # None
  /\ ejercicios[e].id_paciente # q

\* C16: in every reachable store, no call of get_exercise_for_context for a
\* patient q creates an assignment to an exercise whose general record names
\* a different owning patient; every personalized exercise is stored with
\* visibility private, and the unassigned tier leaves private exercises out.
C16_NotHandedToAnother ==
  /\ \A q \in Patients, c \in Contexts, v \in Verbs, f \in Faults :
       \A o \in GetOutcomes(q, c, v, f) :
         /\ \A e \in Ids :
              o.asg[q][e] # asignados[q][e] => ~OwnedByAnother(e, q)
         /\ (o.ret.kind = "exercise" /\ o.ret.tier = "new")
              => ~OwnedByAnother(o.ret.id, q)
  /\ \A e \in Ids :
       (ejercicios[e].exists /\ ejercicios[e].personalizado)
         => ejercicios[e].tipo = "privado"

\* the selector has just assigned an unassigned exercise to a patient while
\* the catalog held, for the same context and verb, an exercise personalized
\* for another patient that this one has no assignment for
C16_Witness ==
  /\ JustNewlySelected
  /\ asignados[ret.email][ret.id].exists
  /\ \E j \in Ids :
       /\ OwnedByAnother(j, ret.email)
       /\ ejercicios[j].personalizado
       /\ ejercicios_VNEST[j].exists
       /\ ejercicios_VNEST[j].contexto = ejercicios_VNEST[ret.id].contexto
       /\ ejercicios_VNEST[j].verbo = ejercicios_VNEST[ret.id].verbo
       /\ ~asignados[ret.email][j].exists

====
